---- MODULE Spec2Model ----
(***************************************************************************)
(* Model of the Pima County multi-page scraper                             *)
(* (src/pima_scraper_all_pages.py, class PimaCountyScraper).               *)
(*                                                                         *)
(* The run is single-threaded.  Every blocking call of the code (an HTTP   *)
(* request, a time.sleep) is a position of pc; an action is the code that  *)
(* runs between two such positions.  The backend is the environment: it    *)
(* answers each request with a status code, a network exception or, for a  *)
(* results page, a markup.  A KeyboardInterrupt may arrive at any blocking *)
(* position inside run()'s try block.                                      *)
(***************************************************************************)
EXTENDS Integers, Sequences, FiniteSets, TLC

VARIABLES
    pc,               \* position of the single thread of control
    hs_sent,          \* handshake requests issued so far, in order (history)
    hs_status,        \* status received for each answered handshake request
    total_pages,      \* self.results.total_pages
    total_records,    \* self.results.total_records
    documents,        \* self.results.documents
    processing_stats, \* self.results.processing_stats
    page_num,         \* loop variable of scrape_all_pages
    attempt,          \* loop variable of fetch_page
    successful_pages, \* local of scrape_all_pages
    failed_pages,     \* local of scrape_all_pages
    output,           \* the JSON artifact on disk (written by save_results)
    req,              \* the last HTTP request issued (history)
    interrupted,      \* a KeyboardInterrupt has been delivered (history)
    page_log,         \* answers to the requests of the current fetch_page call
    fetch_result,     \* how the current fetch_page call ended
    html_content,     \* local of scrape_all_pages: what fetch_page returned
    backoff,          \* length in ms of the sleep before a retry (0: no sleep)
    debug_files,      \* pages p whose snapshot debug_page_p.html is on disk
    succeeded,        \* pages counted in successful_pages (history)
    ping_result,      \* return value of the ping_session call just made
    ping_rejected,    \* that call saw status 401 or 403 (history)
    requested_pages,  \* page numbers a page request was issued for (history)
    session_cookie,   \* the cookie jar holds the session cookie
    search_status,    \* statuses received for the search POST (history)
    search_body,      \* body of the search response that was parsed (history)
    parse_input,      \* the row or markup handed to the extractor on its own
    parse_output,     \* what the extractor returned for parse_input
    parse_again,      \* what a second call of parse_page returned for it
    form_input,       \* DOC_TYPES, the configured document-type entries
    form_output,      \* the form submit_search built (<< >>: not built yet)
    daemon_pc,        \* session_initiator: position of ping_loop ("off": not run)
    daemon_backoff,   \* ping_loop's local backoff, in seconds
    daemon_status,    \* the answer to the last ping (<< >>: none yet)
    daemon_pings,     \* number of pings sent (history)
    pdf_pc,           \* get_pima_pdf_v6: position of main ("off": not run)
    pdf_requested,    \* the candidate paths requested so far (history)
    pdf_log,          \* the answers to those requests
    pdf_result,       \* return value of main (<< >>: none)
    pdf_debug,        \* the request of the viewer page for debug_response.html
    pdf_saved         \* the file OUT was written

vars == <<pc, hs_sent, hs_status, total_pages, total_records, documents,
          processing_stats, page_num, attempt, successful_pages, failed_pages,
          output, req, interrupted, page_log, fetch_result, html_content,
          backoff, debug_files, succeeded,
          ping_result, ping_rejected, requested_pages, session_cookie,
          search_status, search_body, parse_input, parse_output,
          parse_again, form_input, form_output, daemon_pc, daemon_backoff,
          daemon_status, daemon_pings, pdf_pc, pdf_requested, pdf_log,
          pdf_result, pdf_debug, pdf_saved>>

\* the variables of the keep-alive daemon
daemonVars == <<daemon_pc, daemon_backoff, daemon_status, daemon_pings>>

\* the variables of the PDF downloader
pdfVars == <<pdf_pc, pdf_requested, pdf_log, pdf_result, pdf_debug, pdf_saved>>

\* the variables of the two stand-alone tools
toolVars == <<daemonVars, pdfVars>>

\* the variables of the search form
formVars == <<form_input, form_output>>

\* the variables of the extractor when it is exercised on its own
parseVars == <<parse_input, parse_output, parse_again>>

\* the variables describing the session and the search response
sessionVars == <<session_cookie, search_status, search_body>>

----------------------------------------------------------------------------
(* Bounds of the model *)

\* largest page count the search endpoint reports
MaxPages == 5

\* largest number of result rows in one page's markup
MaxRows == 2

\* largest number of result-list containers in one page's markup
MaxContainers == 2

\* largest number of document-type entries in the configuration
MaxTypes == 3

\* largest number of pings the keep-alive daemon sends
MaxPings == 8

----------------------------------------------------------------------------
(* Program constants *)

MAX_RETRIES == 3

\* "if page_num % 5 == 0"
PING_EVERY == 5

\* the labels establish_session gives its six requests, in program order
HandshakeSteps ==
    << "GET disclaimer", "POST disclaimer", "GET web root",
       "POST home actions", "GET action group", "GET search page" >>

----------------------------------------------------------------------------
(* The environment: what the backend can answer *)

\* a network-level failure (requests.RequestException) instead of a status
NetworkError == -1

StatusCodes == {200, 404, 503}

PingStatusCodes == {200, 401, 403, 503}

\* Bodies of a search response: not JSON, a JSON object without the
\* totalPages field, a JSON value that is no object (an array, a string, a
\* number, null), or a JSON object with an integer totalPages.
SearchBodies ==
    { [kind |-> "notjson", n |-> 0], [kind |-> "nofield", n |-> 0],
      [kind |-> "nondict", n |-> 0] }
    \cup { [kind |-> "int", n |-> k] : k \in (-1)..MaxPages }

\* no body parsed
NoBody == [kind |-> "none", n |-> 0]

----------------------------------------------------------------------------
(* Helpers translated from the code *)

\* faulty variant: the status is never checked
ensure_ok_NoCheck(status) == TRUE

\* faulty variant: only server errors are refused
ensure_ok_Lenient(status) == status < 500

\* requests.Response.ok as used by ensure_ok: TRUE when ensure_ok returns,
\* FALSE when it raises RuntimeError
ensure_ok(status) == status < 400

\* faulty variant: client errors are taken for server errors
IsServerError_ClientToo(status) == status >= 400

\* "if r.status_code >= 500" in fetch_page
IsServerError(status) == status >= 500

\* faulty variant: a network failure is not caught
Retryable_Only5xx(status) == IsServerError(status)

\* the answers fetch_page retries: a 5xx status, or a
\* requests.RequestException instead of a status
Retryable(status) == status = NetworkError \/ IsServerError(status)

\* "for attempt in range(1, MAX_RETRIES + 1)"
AttemptRange == 1..MAX_RETRIES

\* faulty variant: gives up one attempt early
LastAttempt_OffByOne(a) == a = MAX_RETRIES - 1

\* "if attempt == MAX_RETRIES: return None"
LastAttempt(a) == a = MAX_RETRIES

\* random.uniform(0, 0.5), in ms: the ends of the interval
Jitter == {0, 500}

RECURSIVE Pow(_, _)
Pow(b, e) == IF e = 0 THEN 1 ELSE b * Pow(b, e - 1)

\* 0.7 * (1.8 ** (attempt - 1)) + jitter, in ms
ExponentialBackoff(a, jitter) == (700 * Pow(18, a - 1)) \div Pow(10, a - 1) + jitter

\* lines 294-296 after a 5xx answer, line 307 after a RequestException
RetrySleep(status, a, jitter) ==
    IF status = NetworkError THEN 1000 ELSE ExponentialBackoff(a, jitter)

\* faulty variant: the ping comes one page late
PingDue_OffByOne(p) == p % PING_EVERY = 1

\* "if page_num % 5 == 0: self.ping_session()"
PingDue(p) == p % PING_EVERY = 0

\* "if r.status_code in (401, 403): return False"
PingRejected(status) == status \in {401, 403}

\* ---- texts ----
\* A text is the sequence of its words; the empty string is << >>.

\* the separator of the heading, U+2022
Bullet == "bullet"

\* the delimiter ' | ' of the joined names
Pipe == "|"

BASE == "https://pimacountyaz-web.tylerhost.net"

\* "frag in text": frag occurs as a contiguous part of text
Contains(text, frag) ==
    \E i \in 0..(Len(text) - Len(frag)) : SubSeq(text, i + 1, i + Len(frag)) = frag

RECURSIVE Split(_, _)
\* str.split(sep): the parts between the separators, always at least one
Split(text, sep) ==
    IF \A i \in 1..Len(text) : text[i] # sep
    THEN <<text>>
    ELSE LET k == CHOOSE i \in 1..Len(text) :
                     text[i] = sep /\ \A j \in 1..(i - 1) : text[j] # sep
         IN <<SubSeq(text, 1, k - 1)>> \o Split(SubSeq(text, k + 1, Len(text)), sep)

\* str.startswith
StartsWith(text, word) == text # << >> /\ text[1] = word

\* str.replace(word, '')
Remove(text, word) == SelectSeq(text, LAMBDA w : w # word)

\* str.split(sep, 1): the text before the first separator and the text after
\* it; the whole text when it has no separator
SplitOnce(text, sep) ==
    IF \A i \in 1..Len(text) : text[i] # sep
    THEN <<text>>
    ELSE LET k == CHOOSE i \in 1..Len(text) :
                     text[i] = sep /\ \A j \in 1..(i - 1) : text[j] # sep
         IN <<SubSeq(text, 1, k - 1), SubSeq(text, k + 1, Len(text))>>

RECURSIVE Strip(_)
\* str.strip: without the blanks at both ends
Strip(text) ==
    IF text = << >> THEN text
    ELSE IF text[1] = " " THEN Strip(Tail(text))
    ELSE IF text[Len(text)] = " " THEN Strip(SubSeq(text, 1, Len(text) - 1))
    ELSE text

\* str.lower on the words a column header is made of
Lower(word) ==
    CASE word = "Recording" -> "recording"
      [] word = "Date" -> "date"
      [] word = "Grantor" -> "grantor"
      [] word = "Grantee" -> "grantee"
      [] word = "Consideration" -> "consideration"
      [] word = "Legal" -> "legal"
      [] word = "Description" -> "description"
      [] OTHER -> word

LowerText(text) == [i \in 1..Len(text) |-> Lower(text[i])]

\* the words the pattern (\d{1,2}/\d{1,2}/\d{4}) matches
IsDate(word) == word \in {"01/02/2024", "3/4/2024"}

\* re.search(...).group(1): the first date of the text, << >> when none
DateMatch(text) ==
    IF \E i \in 1..Len(text) : IsDate(text[i])
    THEN <<text[CHOOSE i \in 1..Len(text) :
                   IsDate(text[i]) /\ \A j \in 1..(i - 1) : ~IsDate(text[j])]>>
    ELSE << >>

RECURSIVE FirstNonEmpty(_, _)
\* "for li in value_lis: if text: ... break": the first non-empty text from
\* position i on, << >> when there is none
FirstNonEmpty(values, i) ==
    IF i > Len(values) THEN << >>
    ELSE IF values[i] # << >> THEN values[i]
    ELSE FirstNonEmpty(values, i + 1)

\* faulty variant: only the first name is taken
Join_FirstOnly(values, i) == FirstNonEmpty(values, i)

RECURSIVE Join(_, _)
\* ' | '.join of the non-empty values from position i on
Join(values, i) ==
    IF i > Len(values) THEN << >>
    ELSE IF values[i] = << >> THEN Join(values, i + 1)
    ELSE LET rest == Join(values, i + 1)
         IN IF rest = << >> THEN values[i] ELSE values[i] \o <<Pipe>> \o rest

\* ---- DocumentRecord ----
EmptyRecord ==
    [document_id |-> << >>, book_volume_page |-> << >>, document_type |-> "",
     document_type_description |-> << >>, recording_date |-> << >>,
     grantor |-> << >>, grantee |-> << >>, consideration |-> << >>,
     legal_description |-> << >>, document_url |-> << >>,
     additional_info |-> {}]

\* Optional[DocumentRecord]: << >> is None, <<doc>> is the record doc
None == << >>

\* ---- parse_document_from_row ----
\* A row is [documentid, id, href: the texts of the attributes
\* data-documentid, id and data-href (<< >> when absent); h1: [present,
\* text]; columns: the searchResultThreeColumn blocks, each the sequence of
\* the texts of its li entries].

\* lines 316-322
DocumentIdOf(row) ==
    IF row.documentid # << >> THEN row.documentid
    ELSE IF StartsWith(row.id, "searchRow") THEN Remove(row.id, "searchRow")
    ELSE << >>

\* faulty variant: an unmatched description is coded UNKNOWN
DocumentTypeOf_Unknown(description) ==
    IF Contains(description, <<"NOTICE", "SALE">>) THEN "NTSALE"
    ELSE IF Contains(description, <<"CANCELLATION">>) THEN "CNLNT"
    ELSE "UNKNOWN"

\* lines 335-338; the else case leaves the default of the dataclass
DocumentTypeOf(description) ==
    IF Contains(description, <<"NOTICE", "SALE">>) THEN "NTSALE"
    ELSE IF Contains(description, <<"CANCELLATION">>) THEN "CNLNT"
    ELSE EmptyRecord.document_type

\* lines 324-338
ApplyHeading(doc, h1) ==
    IF ~h1.present THEN doc
    ELSE LET parts == Split(h1.text, Bullet)
             d1 == [doc EXCEPT !.book_volume_page = parts[1]]
         IN IF Len(parts) >= 2
            THEN [d1 EXCEPT !.document_type_description = parts[2],
                            !.document_type = DocumentTypeOf(parts[2])]
            ELSE d1

\* lines 348-398: one column, the elif chain on its header
ApplyColumn(doc, lis) ==
    IF lis = << >> THEN doc
    ELSE LET header_text == LowerText(lis[1])
             value_lis == SubSeq(lis, 2, Len(lis))
             keep(field, new) ==
                 IF new = << >> THEN doc ELSE [doc EXCEPT ![field] = new]
         IN IF Contains(header_text, <<"recording", "date">>)
            THEN keep("recording_date",
                      FirstNonEmpty([i \in 1..Len(value_lis) |-> DateMatch(value_lis[i])], 1))
            ELSE IF Contains(header_text, <<"grantor">>)
            THEN keep("grantor", Join(value_lis, 1))
            ELSE IF Contains(header_text, <<"grantee">>)
            THEN keep("grantee", Join(value_lis, 1))
            ELSE IF Contains(header_text, <<"consideration">>)
            THEN keep("consideration", FirstNonEmpty(value_lis, 1))
            ELSE IF \/ Contains(header_text, <<"legal">>)
                    \/ Contains(header_text, <<"description">>)
            THEN keep("legal_description", FirstNonEmpty(value_lis, 1))
            ELSE doc

RECURSIVE ApplyColumns(_, _, _)
ApplyColumns(doc, columns, i) ==
    IF i > Len(columns) THEN doc
    ELSE ApplyColumns(ApplyColumn(doc, columns[i]), columns, i + 1)

\* lines 404-407: the data- attributes with a value
DataAttributes(row) ==
    (IF row.documentid # << >> THEN {<<"documentid", row.documentid>>} ELSE {})
    \cup (IF row.href # << >> THEN {<<"href", row.href>>} ELSE {})

\* faulty variant: every row counts as meaningful
HasMeaningfulData_Always(doc) == TRUE

\* the any([...]) test at the end of parse_document_from_row
HasMeaningfulData(doc) ==
    \/ doc.document_id # << >>
    \/ doc.recording_date # << >>
    \/ doc.grantor # << >>
    \/ doc.grantee # << >>
    \/ doc.document_type_description # << >>
    \/ doc.book_volume_page # << >>

\* urljoin(BASE, href_attr) raises ValueError ("Invalid IPv6 URL") for an
\* href with an unclosed bracket in its host part
UrlJoinRaises(href) == href = <<"//[">>

\* the try block of parse_document_from_row is left by an exception
RowRaises(row) == row.href # << >> /\ UrlJoinRaises(row.href)

\* lines 314-430: the record parse_document_from_row fills in
ExtractFields(row) ==
    LET d1 == [EmptyRecord EXCEPT !.document_id = DocumentIdOf(row)]
        d2 == ApplyHeading(d1, row.h1)
        d3 == [d2 EXCEPT !.document_url =
                  IF row.href # << >> THEN <<BASE>> \o row.href ELSE << >>]
        d4 == ApplyColumns(d3, row.columns, 1)
    IN [d4 EXCEPT !.additional_info = DataAttributes(row)]

\* parse_document_from_row: the record of the row, or None
\* faulty variant: the exception of a row is not caught, it ends the loop of
\* parse_page, whose handler returns []
RowFailureEndsPage_Yes(row) == RowRaises(row)

\* "except Exception" in parse_document_from_row: nothing leaves it
RowFailureEndsPage(row) == FALSE

\* parse_document_from_row: the record of the row, or None; None too when
\* the try block raised
parse_document_from_row(row) ==
    IF RowRaises(row) THEN None
    ELSE LET doc == ExtractFields(row)
         IN IF HasMeaningfulData(doc) THEN <<doc>> ELSE None

\* ---- parse_page ----
\* A markup is [containers: the number of selfServiceSearchResultList
\* elements; rows: the ss-search-row elements in document order, each with
\* loc, the container it sits in (0: in none), and the row itself].

\* faulty variant: the whole document is always scanned
DocumentRows_WholeDocument(markup) == [i \in 1..Len(markup.rows) |-> i]

\* lines 448-466: the positions of the rows handed to
\* parse_document_from_row: those of the first container when there is a
\* container, else those of the whole document
DocumentRows(markup) ==
    IF markup.containers >= 1
    THEN SelectSeq([i \in 1..Len(markup.rows) |-> i],
                   LAMBDA i : markup.rows[i].loc = 1)
    ELSE [i \in 1..Len(markup.rows) |-> i]

\* a record together with where it came from: the page number and the
\* position of its row in the markup (history, not part of DocumentRecord)
Tag(doc, p, i) ==
    [page |-> p, row |-> i,
     document_id |-> doc.document_id,
     book_volume_page |-> doc.book_volume_page,
     document_type |-> doc.document_type,
     document_type_description |-> doc.document_type_description,
     recording_date |-> doc.recording_date,
     grantor |-> doc.grantor,
     grantee |-> doc.grantee,
     consideration |-> doc.consideration,
     legal_description |-> doc.legal_description,
     document_url |-> doc.document_url,
     additional_info |-> doc.additional_info]

RECURSIVE ParseRows(_, _, _, _)
\* "for i, row in enumerate(document_rows)": append the record of each row
\* that has one
ParseRows(markup, document_rows, p, k) ==
    IF k > Len(document_rows) THEN << >>
    ELSE LET i == document_rows[k]
             doc == parse_document_from_row(markup.rows[i].row)
         IN (IF doc # None THEN <<Tag(doc[1], p, i)>> ELSE << >>)
            \o ParseRows(markup, document_rows, p, k + 1)

\* faulty variant: the page number gets into the records of later pages
parse_page_Stamped(markup, p) ==
    LET recs == ParseRows(markup, DocumentRows(markup), p, 1)
    IN [k \in 1..Len(recs) |->
          [recs[k] EXCEPT !.document_url =
              IF p = 1 THEN @ ELSE @ \o <<"page">>]]

\* parse_page: the records of the rows, in document order; [] when an
\* exception reaches the handler of parse_page
parse_page(markup, p) ==
    IF \E k \in 1..Len(DocumentRows(markup)) :
          RowFailureEndsPage(markup.rows[DocumentRows(markup)[k]].row)
    THEN << >>
    ELSE ParseRows(markup, DocumentRows(markup), p, 1)

\* faulty variant: the snapshot is written whenever no row was found
WritesDebugFile_NoRows(markup) == DocumentRows(markup) = << >>

\* lines 450, 466-468: the else branch of "if search_result_container" and
\* of "if document_rows"
WritesDebugFile(markup) ==
    markup.containers = 0 /\ DocumentRows(markup) = << >>

\* lines 482-485: debug_page_{page_num}.html
DebugFile(markup, p) == IF WritesDebugFile(markup) THEN {p} ELSE {}

\* ---- the rows and markups the backend can serve ----
NoH1 == [present |-> FALSE, text |-> << >>]

H1Texts ==
    { << >>,
      <<"B1">>,
      <<"B1", Bullet>>,
      <<Bullet, "DEED">>,
      <<"B1", Bullet, "DEED">>,
      <<"B1", Bullet, "NOTICE", "SALE">>,
      <<"B1", Bullet, "NOTICE", "OF", "SALE">>,
      <<"B1", Bullet, "CANCELLATION">>,
      <<"B1", Bullet, "CANCELLATION", "NOTICE", "SALE">>,
      <<"B1", Bullet, "CANCELLATION", Bullet, "NOTICE", "SALE">> }

DateColumn == << <<"Recording", "Date">>, <<"01/02/2024", "09:15">> >>

GrantorColumn == << <<"Grantor">>, <<"SMITH">>, << >>, <<"JONES">> >>

GranteeColumn == << <<"Grantee">>, <<"BANK">> >>

\* the blocks of searchResultThreeColumn a row can carry
ColumnLists ==
    { << >>,
      << << >> >>,
      <<DateColumn>>,
      << << <<"Recording", "Date">>, <<"pending">> >> >>,
      <<GrantorColumn>>,
      <<GranteeColumn>>,
      << << <<"Grantee">>, << >> >> >>,
      <<GrantorColumn, << <<"Grantor">>, << >> >> >>,
      << << <<"Grantee">>, <<"FIRST", "BANK">>, <<"TRUSTEE">> >>, GranteeColumn >>,
      << << <<"Consideration">>, <<"10.00">> >> >>,
      << << <<"Legal">>, << >>, <<"LOT", "5">> >> >>,
      <<DateColumn, GrantorColumn, GranteeColumn>> }

Rows ==
    [ documentid : {<< >>, <<"D1">>},
      id : {<< >>, <<"searchRow">>, <<"searchRow", "D2">>, <<"row7">>},
      href : {<< >>, <<"/web/document/D1">>, <<"//[">>},
      h1 : {NoH1} \cup {[present |-> TRUE, text |-> t] : t \in H1Texts},
      columns : ColumnLists ]

\* a row as the portal renders it for a notice of sale
DataRow ==
    [documentid |-> <<"D1">>, id |-> <<"searchRow", "D1">>,
     href |-> <<"/web/document/D1">>,
     h1 |-> [present |-> TRUE, text |-> <<"B1", Bullet, "NOTICE", "SALE">>],
     columns |-> <<DateColumn, GrantorColumn, GranteeColumn>>]

\* a row that carries none of the identifying fields
BlankRow ==
    [documentid |-> << >>, id |-> << >>, href |-> << >>, h1 |-> NoH1,
     columns |-> << >>]

\* a data row whose data-href makes urljoin raise
MalformedRow == [DataRow EXCEPT !.href = <<"//[">>]

\* the empty response body
EmptyBody == [containers |-> 0, rows |-> << >>]

\* The markups a results page of a run can carry: the empty body, or one
\* container with MaxRows rows, all data rows except perhaps the first,
\* which can be blank or malformed.
PageMarkups ==
    { EmptyBody }
    \cup { [containers |-> 1,
            rows |-> [i \in 1..MaxRows |->
                        [loc |-> 1, row |-> IF i = 1 THEN first ELSE DataRow]]]
           : first \in {DataRow, BlankRow, MalformedRow} }

\* the sequences over S of length at most n
SeqUpTo(S, n) == UNION { [1..k -> S] : k \in 0..n }

\* The markups the extractor is exercised on: up to MaxContainers containers
\* and up to MaxRows rows, each in one of the containers or outside them.
Markups ==
    UNION { [containers : {c},
             rows : SeqUpTo([loc : 0..c, row : {DataRow, BlankRow, MalformedRow}],
                            MaxRows)]
            : c \in 0..MaxContainers }

\* what the extractor can be called with on its own
ParseJobs ==
    { [kind |-> "row", row |-> r] : r \in Rows }
    \cup { [kind |-> "page", markup |-> m, page |-> 1] : m \in Markups }

\* faulty variant: the page's records are put in front
Extend_Prepend(docs, page_documents) == page_documents \o docs

\* "self.results.documents.extend(page_documents)"
Extend(docs, page_documents) == docs \o page_documents

\* r.json() returns a value without a .get method: AttributeError, which
\* "except json.JSONDecodeError" does not catch
JsonGetRaises(body) == body.kind = "nondict"

\* "response_data.get("totalPages", 1)" and the JSONDecodeError branch
TotalPagesOf(body) == IF body.kind = "int" THEN body.n ELSE 1

\* faulty variant: zero pages count as results
HasResults_NonNegative(tp) == tp >= 0

\* "if self.results.total_pages > 0" in run
HasResults(tp) == tp > 0

\* faulty variant: the loop variable is not advanced
NextPage_Same(p) == p

\* "for page_num in range(1, self.results.total_pages + 1)": the next value
NextPage(p) == p + 1

NoStats == [set |-> FALSE]

\* faulty variant: the list of failed pages is left out
FinalStats_NoFailedList(tp, succ, failed, docs) ==
    [set |-> TRUE,
     total_pages_attempted |-> tp,
     successful_pages |-> succ,
     failed_pages |-> << >>,
     total_documents_extracted |-> Len(docs)]

\* the statistics scrape_all_pages computes after its loop
FinalStats(tp, succ, failed, docs) ==
    [set |-> TRUE,
     total_pages_attempted |-> tp,
     successful_pages |-> succ,
     failed_pages |-> failed,
     total_documents_extracted |-> Len(docs)]

NoOutput == [written |-> FALSE]

\* faulty variant: the pages are counted instead of the records
save_results_CountsPages(tp, tr, docs, stats) ==
    [written |-> TRUE,
     total_pages |-> tp,
     total_records |-> tp,
     documents |-> docs,
     processing_stats |-> stats]

\* save_results: the dictionary dumped to the output file
save_results(tp, tr, docs, stats) ==
    [written |-> TRUE,
     total_pages |-> tp,
     total_records |-> tr,
     documents |-> docs,
     processing_stats |-> stats]

\* faulty variant: the handlers save unconditionally
HandlerSaves_Always(docs) == TRUE

\* "if self.results.documents:" in both handlers of run
HandlerSaves(docs) == docs # << >>

\* ---- the search form ----
START_DATE == <<"07/01/2025">>

END_DATE == <<"10/21/2025">>

\* the configured entries: codes only
DOC_TYPES == << <<"NTSALE">>, <<"CNLNT">> >>

\* faulty variant: an entry without a label gets an empty label
SplitEntry_EmptyLabel(entry) ==
    IF Contains(entry, <<":">>)
    THEN SplitOnce(entry, ":")
    ELSE <<entry, << >> >>

\* lines 230-233: code and label of an entry
SplitEntry(entry) ==
    IF Contains(entry, <<":">>)
    THEN SplitOnce(entry, ":")
    ELSE <<entry, entry>>

RECURSIVE EntryFields(_, _)
\* lines 229-235: the two fields of each entry from position i on
EntryFields(doc_types, i) ==
    IF i > Len(doc_types) THEN << >>
    ELSE LET code_label == SplitEntry(doc_types[i])
         IN << <<"field_selfservice_documentTypes-holderInput", Strip(code_label[1])>>,
               <<"field_selfservice_documentTypes-holderValue", Strip(code_label[2])>> >>
            \o EntryFields(doc_types, i + 1)

\* lines 224-238: the form posted by submit_search
FormData(doc_types) ==
    << <<"field_RecordingDateID_DOT_StartDate", START_DATE>>,
       <<"field_RecordingDateID_DOT_EndDate", END_DATE>> >>
    \o EntryFields(doc_types, 1)
    \o << <<"field_selfservice_documentTypes-containsInput", <<"Contains", " ", "Any">> >>,
          <<"field_selfservice_documentTypes", << >> >> >>

\* the entries a configuration can hold: a code, a code with a label, blanks
\* around both, a label that holds a colon, a colon without a label
DocTypeEntries ==
    { <<"NTSALE">>,
      <<"CNLNT", ":", "CANCELLATION NOTICE SALE">>,
      <<" ", "NTSALE", " ", ":", " ", "NOTICE SALE", " ">>,
      <<"DEED", ":", "DEED", ":", "QUITCLAIM">>,
      <<"CNLNT", ":">> }

DocTypeLists == SeqUpTo(DocTypeEntries, MaxTypes)

NoRequest == <<"none", 0, 0>>

----------------------------------------------------------------------------
InitRun ==
    /\ pc = "establish"
    /\ hs_sent = << >>
    /\ hs_status = << >>
    /\ total_pages = 0
    /\ total_records = 0
    /\ documents = << >>
    /\ processing_stats = NoStats
    /\ page_num = 0
    /\ attempt = 0
    /\ successful_pages = 0
    /\ failed_pages = << >>
    /\ output = NoOutput
    /\ req = NoRequest
    /\ interrupted = FALSE
    /\ page_log = << >>
    /\ fetch_result = "none"
    /\ html_content = None
    /\ backoff = 0
    /\ debug_files = {}
    /\ succeeded = {}
    /\ ping_result = "none"
    /\ ping_rejected = FALSE
    /\ requested_pages = {}
    /\ session_cookie = FALSE
    /\ search_status = << >>
    /\ search_body = NoBody

\* the extractor is not exercised on its own
NoParse == [kind |-> "none"]

\* the keep-alive daemon is not run
DaemonOff ==
    /\ daemon_pc = "off"
    /\ daemon_backoff = 0
    /\ daemon_status = << >>
    /\ daemon_pings = 0

\* the PDF downloader is not run
PdfOff ==
    /\ pdf_pc = "off"
    /\ pdf_requested = << >>
    /\ pdf_log = << >>
    /\ pdf_result = << >>
    /\ pdf_debug = "none"
    /\ pdf_saved = FALSE

Init ==
    /\ InitRun
    /\ parse_input = NoParse
    /\ parse_output = NoParse
    /\ parse_again = NoParse
    /\ form_input = DOC_TYPES
    /\ form_output = << >>
    /\ DaemonOff
    /\ PdfOff

\* The handlers of run: "except KeyboardInterrupt" returns, "except
\* Exception" re-raises; both save only when documents is non-empty.
Handler(kind) ==
    /\ output' = IF HandlerSaves(documents)
                 THEN save_results(total_pages, total_records, documents, processing_stats)
                 ELSE output
    /\ pc' = IF kind = "KeyboardInterrupt" THEN "stopped" ELSE "raised"

----------------------------------------------------------------------------
(* establish_session *)

HandshakeSend ==
    /\ pc = "establish"
    /\ Len(hs_sent) < Len(HandshakeSteps)
    /\ hs_sent' = Append(hs_sent, HandshakeSteps[Len(hs_sent) + 1])
    /\ req' = <<"handshake", Len(hs_sent) + 1, 0>>
    /\ pc' = "establish_wait"
    /\ UNCHANGED <<hs_status, total_pages, total_records, documents,
                   processing_stats, page_num, attempt, successful_pages,
                   failed_pages, output, interrupted, page_log, fetch_result,
                   ping_result, ping_rejected, requested_pages>>
    /\ UNCHANGED <<html_content, backoff, debug_files, succeeded, sessionVars, parseVars, formVars, toolVars>>

\* The answer to a handshake request.  cookies is what the backend may do
\* about the session cookie when it answers the disclaimer GET; the code
\* never looks into the cookie jar.
HandshakeResponseWith(cookies) ==
    /\ pc = "establish_wait"
    /\ \E status \in StatusCodes \cup {NetworkError}, cookie \in cookies :
         /\ hs_status' = Append(hs_status, status)
         /\ session_cookie' = IF Len(hs_sent) = 1 /\ status # NetworkError
                              THEN cookie ELSE session_cookie
         /\ IF status # NetworkError /\ ensure_ok(status)
            THEN /\ pc' = IF Len(hs_sent) = Len(HandshakeSteps) THEN "submit" ELSE "establish"
                 /\ UNCHANGED output
            ELSE Handler("Exception")
    /\ UNCHANGED <<hs_sent, total_pages, total_records, documents,
                   processing_stats, page_num, attempt, successful_pages,
                   failed_pages, req, interrupted, page_log, fetch_result,
                   ping_result, ping_rejected, requested_pages>>
    /\ UNCHANGED <<html_content, backoff, debug_files, succeeded, search_status, search_body, parseVars, formVars, toolVars>>

\* the backend sets the session cookie with the disclaimer page
HandshakeResponse == HandshakeResponseWith({TRUE})

\* the backend may answer the disclaimer GET without a session cookie
HandshakeResponseAnyCookie == HandshakeResponseWith(BOOLEAN)

----------------------------------------------------------------------------
(* submit_search *)

SearchSend ==
    /\ pc = "submit"
    /\ form_output' = FormData(form_input)
    /\ req' = <<"search", 0, 0>>
    /\ pc' = "submit_wait"
    /\ UNCHANGED <<hs_sent, hs_status, total_pages, total_records, documents,
                   processing_stats, page_num, attempt, successful_pages,
                   failed_pages, output, interrupted, page_log, fetch_result,
                   ping_result, ping_rejected, requested_pages>>
    /\ UNCHANGED <<html_content, backoff, debug_files, succeeded, sessionVars, parseVars, form_input, toolVars>>

\* the answer to the search POST, then "if self.results.total_pages > 0"
SearchResponse ==
    /\ pc = "submit_wait"
    /\ \E status \in StatusCodes \cup {NetworkError}, body \in SearchBodies :
         /\ search_status' = <<status>>
         /\ IF status = NetworkError \/ ~ensure_ok(status)
            THEN /\ Handler("Exception")
                 /\ UNCHANGED <<total_pages, page_num, search_body>>
            ELSE /\ search_body' = body
                 /\ IF JsonGetRaises(body)
                    THEN /\ Handler("Exception")
                         /\ UNCHANGED <<total_pages, page_num>>
                    ELSE /\ total_pages' = TotalPagesOf(body)
                         /\ IF HasResults(total_pages')
                            THEN pc' = "loop" /\ page_num' = 1
                            ELSE pc' = "no_results" /\ UNCHANGED page_num
                         /\ UNCHANGED output
    /\ UNCHANGED <<hs_sent, hs_status, total_records, documents,
                   processing_stats, attempt, successful_pages,
                   failed_pages, req, interrupted, page_log, fetch_result,
                   ping_result, ping_rejected, requested_pages>>
    /\ UNCHANGED <<html_content, backoff, debug_files, succeeded, session_cookie, parseVars, formVars, toolVars>>

----------------------------------------------------------------------------
(* scrape_all_pages, fetch_page, ping_session *)

\* faulty variant: "if not html_content", an empty body counts as missing
PageIsMissing_Falsy(content) == content = None \/ content = <<EmptyBody>>

\* "if html_content is None"
PageIsMissing(content) == content = None

\* faulty variant: the failed page is not recorded
RecordFailure_Dropped(failed, p) == failed

\* "failed_pages.append(page_num)"
RecordFailure(failed, p) == Append(failed, p)

\* the end of the for loop: the statistics are computed and run goes on to
\* save_results
LoopEnd(succ, failed, docs) ==
    /\ total_records' = Len(docs)
    /\ processing_stats' = FinalStats(total_pages, succ, failed, docs)
    /\ pc' = "save"
    /\ UNCHANGED page_num

\* "continue" after a failed page: the next iteration starts at once
PageFailed ==
    /\ fetch_result' = "None"
    /\ html_content' = None
    /\ backoff' = 0
    /\ failed_pages' = RecordFailure(failed_pages, page_num)
    /\ UNCHANGED <<documents, successful_pages, output, debug_files, succeeded>>
    /\ IF page_num < total_pages
       THEN /\ page_num' = NextPage(page_num)
            /\ pc' = "loop"
            /\ UNCHANGED <<total_records, processing_stats>>
       ELSE LoopEnd(successful_pages, failed_pages', documents)

\* a fetched page: parse, extend, count, then the pacing sleep unless it was
\* the last page
PageFetched(markup) ==
    /\ fetch_result' = "text"
    /\ html_content' = <<markup>>
    /\ backoff' = 0
    /\ documents' = Extend(documents, parse_page(markup, page_num))
    /\ debug_files' = debug_files \cup DebugFile(markup, page_num)
    /\ successful_pages' = successful_pages + 1
    /\ succeeded' = succeeded \cup {page_num}
    /\ UNCHANGED <<failed_pages, output>>
    /\ IF page_num < total_pages
       THEN /\ pc' = "page_delay"
            /\ UNCHANGED <<page_num, total_records, processing_stats>>
       ELSE LoopEnd(successful_pages', failed_pages, documents')

\* top of an iteration with a ping due: ping_session issues its request
PingSend ==
    /\ pc = "loop"
    /\ PingDue(page_num)
    /\ req' = <<"ping", page_num, 0>>
    /\ pc' = "ping_wait"
    /\ UNCHANGED <<hs_sent, hs_status, total_pages, total_records, documents,
                   processing_stats, page_num, attempt, successful_pages,
                   failed_pages, output, interrupted, page_log, fetch_result,
                   ping_result, ping_rejected, requested_pages>>
    /\ UNCHANGED <<html_content, backoff, debug_files, succeeded, sessionVars, parseVars, formVars, toolVars>>

\* ping_session returns True or False; scrape_all_pages drops the value and
\* goes on to fetch_page
PingResponse ==
    /\ pc = "ping_wait"
    /\ \E status \in PingStatusCodes \cup {NetworkError} :
         /\ ping_result' = IF status = NetworkError \/ PingRejected(status)
                           THEN "False" ELSE "True"
         /\ ping_rejected' = (status # NetworkError /\ PingRejected(status))
    /\ pc' = "fetch"
    /\ UNCHANGED <<hs_sent, hs_status, total_pages, total_records, documents,
                   processing_stats, page_num, attempt, successful_pages,
                   failed_pages, output, req, interrupted, page_log,
                   fetch_result, requested_pages>>
    /\ UNCHANGED <<html_content, backoff, debug_files, succeeded, sessionVars, parseVars, formVars, toolVars>>

\* fetch_page is entered and issues the request of its first attempt
FetchSend ==
    /\ \/ pc = "loop" /\ ~PingDue(page_num)
       \/ pc = "fetch"
    /\ attempt' = 1
    /\ page_log' = << >>
    /\ fetch_result' = "running"
    /\ req' = <<"page", page_num, attempt'>>
    /\ requested_pages' = requested_pages \cup {page_num}
    /\ ping_result' = "none"
    /\ ping_rejected' = FALSE
    /\ pc' = "fetch_wait"
    /\ UNCHANGED <<hs_sent, hs_status, total_pages, total_records, documents,
                   processing_stats, page_num, successful_pages, failed_pages,
                   output, interrupted>>
    /\ UNCHANGED <<html_content, backoff, debug_files, succeeded, sessionVars, parseVars, formVars, toolVars>>

\* the answer to a page request, up to the next blocking call
FetchResponse ==
    /\ pc = "fetch_wait"
    /\ \E status \in StatusCodes \cup {NetworkError}, markup \in PageMarkups :
         /\ page_log' = Append(page_log, status)
         /\ IF Retryable(status)
            THEN IF LastAttempt(attempt)
                 THEN PageFailed
                 ELSE /\ pc' = "backoff"
                      /\ \E jitter \in Jitter :
                           backoff' = RetrySleep(status, attempt, jitter)
                      /\ UNCHANGED <<total_records, documents, processing_stats,
                                     page_num, successful_pages, failed_pages,
                                     output, fetch_result, html_content,
                                     debug_files, succeeded>>
            ELSE IF ensure_ok(status)
                 THEN \* "return r.text", then "if html_content is None"
                      IF PageIsMissing(<<markup>>)
                      THEN PageFailed
                      ELSE PageFetched(markup)
                 ELSE \* RuntimeError: not a RequestException, it leaves
                      \* fetch_page and scrape_all_pages
                      /\ fetch_result' = "raised"
                      /\ Handler("Exception")
                      /\ UNCHANGED <<total_records, documents, processing_stats,
                                     page_num, successful_pages, failed_pages,
                                     html_content, backoff, debug_files,
                                     succeeded>>
    /\ UNCHANGED <<hs_sent, hs_status, total_pages, attempt, req, interrupted,
                   ping_result, ping_rejected, requested_pages>>
    /\ UNCHANGED <<sessionVars, parseVars, formVars, toolVars>>

\* the sleep before a retry is over: the next attempt of the for loop, or
\* the "return None" after the loop when the range is used up
Retry ==
    /\ pc = "backoff"
    /\ IF attempt + 1 \in AttemptRange
       THEN /\ attempt' = attempt + 1
            /\ req' = <<"page", page_num, attempt'>>
            /\ pc' = "fetch_wait"
            /\ backoff' = 0
            /\ UNCHANGED <<total_records, documents, processing_stats, page_num,
                           successful_pages, failed_pages, output, fetch_result,
                           html_content, debug_files, succeeded>>
       ELSE /\ PageFailed
            /\ UNCHANGED <<attempt, req>>
    /\ UNCHANGED <<hs_sent, hs_status, total_pages, interrupted, page_log,
                   ping_result, ping_rejected, requested_pages>>
    /\ UNCHANGED <<sessionVars, parseVars, formVars, toolVars>>

\* time.sleep(PAGE_DELAY) is over: the next iteration
PageDelay ==
    /\ pc = "page_delay"
    /\ page_num' = NextPage(page_num)
    /\ pc' = "loop"
    /\ UNCHANGED <<hs_sent, hs_status, total_pages, total_records, documents,
                   processing_stats, attempt, successful_pages, failed_pages,
                   output, req, interrupted, page_log, fetch_result,
                   ping_result, ping_rejected, requested_pages>>
    /\ UNCHANGED <<html_content, backoff, debug_files, succeeded, sessionVars, parseVars, formVars, toolVars>>

\* run calls save_results after scrape_all_pages returned
Save ==
    /\ pc = "save"
    /\ output' = save_results(total_pages, total_records, documents, processing_stats)
    /\ pc' = "done"
    /\ UNCHANGED <<hs_sent, hs_status, total_pages, total_records, documents,
                   processing_stats, page_num, attempt, successful_pages,
                   failed_pages, req, interrupted, page_log, fetch_result,
                   ping_result, ping_rejected, requested_pages>>
    /\ UNCHANGED <<html_content, backoff, debug_files, succeeded, sessionVars, parseVars, formVars, toolVars>>

----------------------------------------------------------------------------
(* KeyboardInterrupt *)

\* the blocking positions inside run's try block: a request in flight or a
\* time.sleep ("establish" stands for the STEP_DELAY sleeps), and the call
\* of save_results
Interruptible ==
    {"establish", "establish_wait", "submit_wait", "fetch_wait", "backoff",
     "page_delay", "save"}

\* A KeyboardInterrupt outside ping_session reaches run's handler; a sleep
\* in progress is cut short.
Interrupt ==
    /\ pc \in Interruptible
    /\ interrupted' = TRUE
    /\ backoff' = 0
    /\ Handler("KeyboardInterrupt")
    /\ UNCHANGED <<hs_sent, hs_status, total_pages, total_records, documents,
                   processing_stats, page_num, attempt, successful_pages,
                   failed_pages, req, page_log, fetch_result, ping_result,
                   ping_rejected, requested_pages>>
    /\ UNCHANGED <<html_content, debug_files, succeeded, sessionVars, parseVars, formVars, toolVars>>

\* A KeyboardInterrupt during the ping request is caught by the bare
\* "except:" of ping_session, which returns False; the run goes on.
InterruptInPing ==
    /\ pc = "ping_wait"
    /\ interrupted' = TRUE
    /\ ping_result' = "False"
    /\ pc' = "fetch"
    /\ UNCHANGED <<hs_sent, hs_status, total_pages, total_records, documents,
                   processing_stats, page_num, attempt, successful_pages,
                   failed_pages, output, req, page_log, fetch_result,
                   ping_rejected, requested_pages>>
    /\ UNCHANGED <<html_content, backoff, debug_files, succeeded, sessionVars, parseVars, formVars, toolVars>>

----------------------------------------------------------------------------
Next ==
    \/ HandshakeSend
    \/ HandshakeResponse
    \/ SearchSend
    \/ SearchResponse
    \/ PingSend
    \/ PingResponse
    \/ FetchSend
    \/ FetchResponse
    \/ Retry
    \/ PageDelay
    \/ Save
    \/ Interrupt
    \/ InterruptInPing

Spec == Init /\ [][Next]_vars

\* The run under its scheduling: every request carries a timeout and every
\* sleep is finite, so a step that can be taken is eventually taken.
SpecFair == Init /\ [][Next]_vars /\ WF_vars(Next)

\* The run up to the answer to the search POST, with a backend that may
\* leave the cookie jar empty.
NextSession ==
    \/ HandshakeSend
    \/ HandshakeResponseAnyCookie
    \/ SearchSend
    \/ SearchResponse
    \/ Interrupt

SpecSession == Init /\ [][NextSession]_vars

----------------------------------------------------------------------------
(* The extractor on its own: parse_document_from_row on one row, parse_page
   on one markup *)

runVars ==
    <<pc, hs_sent, hs_status, total_pages, total_records, documents,
      processing_stats, page_num, attempt, successful_pages, failed_pages,
      output, req, interrupted, page_log, fetch_result, html_content,
      backoff, succeeded, ping_result, ping_rejected, requested_pages,
      sessionVars>>

InitParse ==
    /\ InitRun
    /\ parse_input \in ParseJobs
    /\ parse_output = NoParse
    /\ parse_again = NoParse
    /\ form_input = DOC_TYPES
    /\ form_output = << >>
    /\ DaemonOff
    /\ PdfOff

ParseRow ==
    /\ parse_output = NoParse
    /\ parse_input.kind = "row"
    /\ parse_output' = [kind |-> "row",
                        result |-> parse_document_from_row(parse_input.row)]
    /\ UNCHANGED <<parse_input, parse_again, runVars, formVars, debug_files, toolVars>>

ParsePage ==
    /\ parse_output = NoParse
    /\ parse_input.kind = "page"
    /\ parse_output' = [kind |-> "page",
                        result |-> parse_page(parse_input.markup, parse_input.page)]
    /\ debug_files' = debug_files \cup DebugFile(parse_input.markup, parse_input.page)
    /\ UNCHANGED <<parse_input, parse_again, runVars, formVars, toolVars>>

\* parse_page is called once more on the same markup, under any page number
ParsePageAgain ==
    /\ parse_output.kind = "page"
    /\ parse_again = NoParse
    /\ \E p \in 1..MaxPages :
         /\ parse_again' = [kind |-> "page", page |-> p,
                            result |-> parse_page(parse_input.markup, p)]
         /\ debug_files' = debug_files \cup DebugFile(parse_input.markup, p)
    /\ UNCHANGED <<parse_input, parse_output, runVars, formVars, toolVars>>

NextParse ==
    \/ ParseRow
    \/ ParsePage
    \/ ParsePageAgain

SpecParse == InitParse /\ [][NextParse]_vars

----------------------------------------------------------------------------
(* The form building of submit_search on its own, for any configuration *)

InitForm ==
    /\ InitRun
    /\ parse_input = NoParse
    /\ parse_output = NoParse
    /\ parse_again = NoParse
    /\ form_input \in DocTypeLists
    /\ form_output = << >>
    /\ DaemonOff
    /\ PdfOff

BuildForm ==
    /\ form_output = << >>
    /\ form_output' = FormData(form_input)
    /\ UNCHANGED <<form_input, runVars, parseVars, debug_files, toolVars>>

NextForm == BuildForm

SpecForm == InitForm /\ [][NextForm]_vars

----------------------------------------------------------------------------
(* The keep-alive daemon of session_initiator.py: ping_loop after
   start_session has set up the session *)

\* "backoff = 5", the value the backoff starts from and is reset to
BACKOFF_START == 5

\* "backoff_max = 300"
backoff_max == 300

DaemonStatusCodes == {200, 401, 403, 404, 503}

Min(a, b) == IF a <= b THEN a ELSE b

\* faulty variant: the backoff is doubled without a cap
NextBackoff_Uncapped(b) == b * 2

\* "backoff = min(backoff * 2, backoff_max)"
NextBackoff(b) == Min(b * 2, backoff_max)

\* everything the daemon leaves alone
notDaemon == <<runVars, debug_files, parseVars, formVars, pdfVars>>

InitDaemon ==
    /\ InitRun
    /\ parse_input = NoParse
    /\ parse_output = NoParse
    /\ parse_again = NoParse
    /\ form_input = DOC_TYPES
    /\ form_output = << >>
    /\ PdfOff
    /\ daemon_pc = "ping"
    /\ daemon_backoff = BACKOFF_START
    /\ daemon_status = << >>
    /\ daemon_pings = 0

\* top of "while True": the ping request is issued
DaemonPingSend ==
    /\ daemon_pc = "ping"
    /\ daemon_pings < MaxPings
    /\ daemon_pings' = daemon_pings + 1
    /\ daemon_pc' = "ping_wait"
    /\ UNCHANGED <<daemon_backoff, daemon_status, notDaemon>>

\* the answer to the ping, up to the sleep that follows it or to sys.exit
DaemonPingResponse ==
    /\ daemon_pc = "ping_wait"
    /\ \E status \in DaemonStatusCodes \cup {NetworkError} :
         /\ daemon_status' = <<status>>
         /\ IF status = NetworkError
            THEN \* except requests.RequestException: time.sleep(backoff)
                 daemon_pc' = "error_sleep" /\ UNCHANGED daemon_backoff
            ELSE IF PingRejected(status)
            THEN \* sys.exit(1)
                 daemon_pc' = "exited" /\ UNCHANGED daemon_backoff
            ELSE IF IsServerError(status)
            THEN daemon_pc' = "error_sleep" /\ UNCHANGED daemon_backoff
            ELSE \* "backoff = 5", then the sleep of the interval
                 daemon_pc' = "interval_sleep" /\ daemon_backoff' = BACKOFF_START
    /\ UNCHANGED <<daemon_pings, notDaemon>>

\* time.sleep(backoff) is over: the backoff is doubled, "continue"
DaemonBackoffOver ==
    /\ daemon_pc = "error_sleep"
    /\ daemon_backoff' = NextBackoff(daemon_backoff)
    /\ daemon_pc' = "ping"
    /\ UNCHANGED <<daemon_status, daemon_pings, notDaemon>>

\* time.sleep(sleep_s) is over: the next iteration
DaemonIntervalOver ==
    /\ daemon_pc = "interval_sleep"
    /\ daemon_pc' = "ping"
    /\ UNCHANGED <<daemon_backoff, daemon_status, daemon_pings, notDaemon>>

\* KeyboardInterrupt in a request or a sleep: main prints "Stopped."
DaemonInterrupt ==
    /\ daemon_pc \in {"ping_wait", "error_sleep", "interval_sleep"}
    /\ daemon_pc' = "stopped"
    /\ UNCHANGED <<daemon_backoff, daemon_status, daemon_pings, notDaemon>>

NextDaemon ==
    \/ DaemonPingSend
    \/ DaemonPingResponse
    \/ DaemonBackoffOver
    \/ DaemonIntervalOver
    \/ DaemonInterrupt

SpecDaemon == InitDaemon /\ [][NextDaemon]_vars

----------------------------------------------------------------------------
(* The PDF downloader get_pima_pdf_v6.py: main and fetch *)

\* the endpoints, in the order of the list
CANDIDATE_PATHS ==
    <<"/web/document-image-pdf/DOC334S176//20252830551-1.pdf?index=1",
      "/web/document-image-pdfjs/DOC334S176/20252830551.pdf?allowDownload=true&index=1",
      "/web/document/servepdf/DEGRADED-DOC334S176.1.pdf/20252830551.pdf?index=1&allowDownload=true&allowPrint=true">>

\* What a request can bring: a network exception, or a status with a body.
\* Of a body the model keeps content, the first four bytes of the whole
\* content, and first, the first four bytes of the first chunk that
\* iter_content delivers (a chunk can be shorter than four bytes).
PdfBodies ==
    { [content |-> "%PDF", first |-> "%PDF"],
      [content |-> "%PDF", first |-> "%P"],
      [content |-> "<htm", first |-> "<htm"],
      [content |-> "", first |-> ""] }

PdfAnswers ==
    { [status |-> NetworkError, content |-> "", first |-> ""] }
    \cup { [status |-> st, content |-> b.content, first |-> b.first] :
              st \in {200, 404}, b \in PdfBodies }

\* b.startswith(b"%PDF")
is_pdf_prefix(b) == b = "%PDF"

\* fetch returns b"ok" (TRUE) or None (FALSE) for an answer that came
fetch(answer) == answer.status < 400 /\ is_pdf_prefix(answer.first)

\* everything the downloader leaves alone
notPdf == <<runVars, debug_files, parseVars, formVars, daemonVars>>

InitPdf ==
    /\ InitRun
    /\ parse_input = NoParse
    /\ parse_output = NoParse
    /\ parse_again = NoParse
    /\ form_input = DOC_TYPES
    /\ form_output = << >>
    /\ DaemonOff
    /\ pdf_pc = "start"
    /\ pdf_requested = << >>
    /\ pdf_log = << >>
    /\ pdf_result = << >>
    /\ pdf_debug = "none"
    /\ pdf_saved = FALSE

\* main up to the request of the first candidate
PdfStart ==
    /\ pdf_pc = "start"
    /\ pdf_requested' = <<CANDIDATE_PATHS[1]>>
    /\ pdf_pc' = "fetch_wait"
    /\ UNCHANGED <<pdf_log, pdf_result, pdf_debug, pdf_saved, notPdf>>

\* the request of a candidate ends: fetch returns or raises, and main goes
\* on to its next request or returns
PdfResponse ==
    /\ pdf_pc = "fetch_wait"
    /\ \E answer \in PdfAnswers :
         /\ pdf_log' = Append(pdf_log, answer)
         /\ IF answer.status = NetworkError
            THEN \* the exception leaves fetch and main
                 /\ pdf_pc' = "raised"
                 /\ UNCHANGED <<pdf_requested, pdf_result, pdf_debug, pdf_saved>>
            ELSE IF fetch(answer)
            THEN \* "if ok: return 0"
                 /\ pdf_saved' = TRUE
                 /\ pdf_result' = <<0>>
                 /\ pdf_pc' = "returned"
                 /\ UNCHANGED <<pdf_requested, pdf_debug>>
            ELSE IF Len(pdf_requested) < Len(CANDIDATE_PATHS)
            THEN \* the next candidate of the for loop
                 /\ pdf_requested' =
                       Append(pdf_requested, CANDIDATE_PATHS[Len(pdf_requested) + 1])
                 /\ pdf_pc' = "fetch_wait"
                 /\ UNCHANGED <<pdf_result, pdf_debug, pdf_saved>>
            ELSE \* the loop is over: the viewer page is requested
                 /\ pdf_debug' = "requested"
                 /\ pdf_pc' = "debug_wait"
                 /\ UNCHANGED <<pdf_requested, pdf_result, pdf_saved>>
    /\ UNCHANGED notPdf

\* the request of the viewer page ends: debug_response.html is written and
\* main returns 2, or the exception leaves main
PdfDebugResponse ==
    /\ pdf_pc = "debug_wait"
    /\ \E raised \in BOOLEAN :
         IF raised
         THEN /\ pdf_debug' = "raised"
              /\ pdf_pc' = "raised"
              /\ UNCHANGED pdf_result
         ELSE /\ pdf_debug' = "written"
              /\ pdf_result' = <<2>>
              /\ pdf_pc' = "returned"
    /\ UNCHANGED <<pdf_requested, pdf_log, pdf_saved, notPdf>>

NextPdf ==
    \/ PdfStart
    \/ PdfResponse
    \/ PdfDebugResponse

SpecPdf == InitPdf /\ [][NextPdf]_vars

----------------------------------------------------------------------------
(* Vocabulary of the properties *)

Range(seq) == { seq[i] : i \in 1..Len(seq) }

Is5xx(status) == status >= 500

Is4xx(status) == status >= 400 /\ status < 500

IsSuccess(status) == status >= 0 /\ status < 400

\* the run got as far as the paging loop
ReachedPaging == page_num >= 1

\* a fetch_page call is under way or has returned, and its answers are in
\* page_log
InFetch == fetch_result # "none" /\ req[1] = "page"

\* the page the current page_log belongs to
LogPage == req[2]

----------------------------------------------------------------------------
(* C1: N consecutive 5xx answers followed by a success make fetch_page issue
   exactly N + 1 requests and succeed, provided N + 1 <= MAX_RETRIES;
   MAX_RETRIES consecutive 5xx answers make it return failure after exactly
   MAX_RETRIES requests, with no request for that page in flight or pending
   afterwards. *)
C1_RetryPolicy ==
    InFetch =>
      LET n == Len(page_log)
          only5xx == \A i \in 1..n : Is5xx(page_log[i])
          thenSuccess == /\ n >= 1
                         /\ \A i \in 1..(n - 1) : Is5xx(page_log[i])
                         /\ IsSuccess(page_log[n])
      IN  /\ n <= MAX_RETRIES
          /\ thenSuccess =>
               /\ fetch_result = "text"
               /\ attempt = n
               /\ pc \notin {"fetch_wait", "backoff"}
          /\ (only5xx /\ n = MAX_RETRIES) =>
               /\ fetch_result = "None"
               /\ attempt = MAX_RETRIES
               /\ pc \notin {"fetch_wait", "backoff"}
          /\ (only5xx /\ n < MAX_RETRIES) =>
               /\ fetch_result = "running"
               /\ pc \in {"fetch_wait", "backoff", "stopped"}
               /\ attempt = IF pc = "fetch_wait" THEN n + 1
                            ELSE IF pc = "backoff" THEN n
                            ELSE attempt
          /\ fetch_result = "None" => n = MAX_RETRIES

\* two 5xx answers, then a success on the last attempt allowed
C1_Witness ==
    /\ InFetch
    /\ page_log = <<503, 503, 200>>
    /\ fetch_result = "text"

----------------------------------------------------------------------------
(* C2: a 4xx answer to the request of page p records p in failed_pages and
   leaves the run going (the failure does not reach run's handler). *)
C2_FatalPageIsRecorded ==
    (InFetch /\ page_log # << >> /\ Is4xx(page_log[Len(page_log)])) =>
       /\ LogPage \in Range(failed_pages)
       /\ pc # "raised"

----------------------------------------------------------------------------
(* C3: when all MAX_RETRIES attempts of page p are answered with 5xx, p is
   appended to failed_pages, documents holds no record of p, the loop moves
   on to page p + 1, and a run that completes has requested every page. *)
C3_ExhaustedPageIsSkipped ==
    /\ (/\ InFetch
        /\ Len(page_log) = MAX_RETRIES
        /\ \A i \in 1..Len(page_log) : Is5xx(page_log[i])) =>
          /\ LogPage \in Range(failed_pages)
          /\ \A i \in 1..Len(documents) : documents[i].page # LogPage
          /\ LogPage < total_pages =>
               /\ page_num = LogPage + 1
               /\ pc \in {"loop", "ping_wait", "fetch"}
          /\ LogPage = total_pages => pc \in {"save", "done", "stopped"}
    /\ \A p \in Range(failed_pages) :
          /\ p \in requested_pages
          /\ \A i \in 1..Len(documents) : documents[i].page # p
    /\ pc \in {"save", "done"} => requested_pages = 1..total_pages

\* three pages, page 2 answered 503 three times, page 1 already parsed
C3_Witness ==
    /\ InFetch
    /\ total_pages = 3
    /\ LogPage = 2
    /\ page_log = <<503, 503, 503>>
    /\ failed_pages = <<2>>
    /\ page_num = 3
    /\ \E i \in 1..Len(documents) : documents[i].page = 1

----------------------------------------------------------------------------
(* C4: at the end of every run that reached paging and was not interrupted,
   successful_pages + len(failed_pages) = total_pages. *)
C4_PagesAddUp ==
    (pc \in {"done", "raised"} /\ ReachedPaging /\ ~interrupted) =>
       successful_pages + Len(failed_pages) = total_pages

----------------------------------------------------------------------------
(* C5: in every artifact save_results writes, total_records equals the
   number of entries of documents. *)
C5_TotalRecordsMatches ==
    output.written => output.total_records = Len(output.documents)

----------------------------------------------------------------------------
(* C6: once a KeyboardInterrupt has been delivered, no further HTTP request
   is issued. *)
C6_NoRequestAfterInterrupt == [][interrupted => req' = req]_vars

----------------------------------------------------------------------------
(* C7 as stated: when the run ends in one of run's handlers after the search
   was submitted, the artifact has been written, whatever documents holds. *)
C7_AlwaysPersisted ==
    (pc \in {"stopped", "raised"} /\ ReachedPaging) => output.written

(* C7 as amended: when a KeyboardInterrupt or an exception reaches run's
   handlers after the search was submitted, save_results is executed exactly
   when documents is non-empty, and then the artifact holds all of
   documents. *)
C7_PersistedIffDocuments ==
    (pc \in {"stopped", "raised"} /\ ReachedPaging) =>
       /\ output.written <=> documents # << >>
       /\ output.written => output.documents = documents

\* an interrupt during paging after records were extracted, artifact written
C7_Witness ==
    /\ pc = "stopped"
    /\ ReachedPaging
    /\ documents # << >>
    /\ output.written

----------------------------------------------------------------------------
(* C8: after a keep-alive ping answered 401 or 403 no further request is
   issued (the run aborts). *)
C8_RejectedPingAborts == [][ping_rejected => req' = req]_vars

----------------------------------------------------------------------------
(* C9: documents, and the documents of the artifact, are ordered by page and
   then by row position: a precedes b exactly when a's page is smaller, or the
   pages are equal and a's row is earlier.  documents is empty at the start;
   every step keeps the old documents as a prefix of the new one, every
   record a step adds is in that order with respect to every other record,
   and an artifact that is written holds exactly documents. *)
Precedes(a, b) == a.page < b.page \/ (a.page = b.page /\ a.row < b.row)

IsPrefix(a, b) == Len(a) <= Len(b) /\ SubSeq(b, 1, Len(a)) = a

C9_DocumentOrder ==
    [][ /\ IsPrefix(documents, documents')
        /\ \A j \in (Len(documents) + 1)..Len(documents') :
              \A i \in 1..Len(documents') :
                 i # j => (i < j <=> Precedes(documents'[i], documents'[j]))
        /\ (output'.written /\ output' # output) =>
              output'.documents = documents' ]_vars

\* records of two pages, two of them from the same page
C9_Witness ==
    /\ Len(documents) >= 3
    /\ \E i, j \in 1..Len(documents) : documents[i].page # documents[j].page
    /\ \E i \in 1..(Len(documents) - 1) :
          /\ documents[i].page = documents[i + 1].page
          /\ documents[i].row < documents[i + 1].row

----------------------------------------------------------------------------
(* C10: the handshake requests are issued in the order GET disclaimer, POST
   disclaimer, GET web root, POST home actions, GET action group, GET search
   page; a request is issued only after every earlier one was answered with a
   success status; nothing is issued beyond the handshake before all six
   succeeded. *)
C10_HandshakeOrder ==
    /\ Len(hs_sent) <= Len(HandshakeSteps)
    /\ hs_sent = SubSeq(HandshakeSteps, 1, Len(hs_sent))
    /\ Len(hs_status) \in {Len(hs_sent), Len(hs_sent) - 1}
    /\ \A k \in 1..(Len(hs_sent) - 1) :
          k <= Len(hs_status) /\ IsSuccess(hs_status[k])
    /\ req[1] \in {"search", "ping", "page"} =>
          /\ hs_sent = HandshakeSteps
          /\ \A k \in 1..Len(hs_status) : IsSuccess(hs_status[k])

\* all six requests issued and answered, the search not yet posted
C10_Witness ==
    /\ pc = "submit"
    /\ hs_sent = HandshakeSteps
    /\ Len(hs_status) = 6

----------------------------------------------------------------------------
(* C11: when handshake step k is answered with a non-success status,
   establish_session fails at that step: the request of step k is the last
   request of the run (no retry, none of the steps k+1..6), and run raises. *)
C11_HandshakeFailureAborts ==
    \A k \in 1..Len(hs_status) :
       ~IsSuccess(hs_status[k]) =>
          /\ k = Len(hs_status)
          /\ Len(hs_sent) = k
          /\ req = <<"handshake", k, 0>>
          /\ pc = "raised"

\* the third step answered 404 after two successes
C11_Witness ==
    /\ pc = "raised"
    /\ hs_status = <<200, 200, 404>>
    /\ hs_sent = SubSeq(HandshakeSteps, 1, 3)

----------------------------------------------------------------------------
(* C12: when the disclaimer GET is answered with a success status and the
   cookie jar holds no session cookie, nothing is issued after that GET. *)
C12_MissingCookieAborts ==
    (/\ Len(hs_status) >= 1
     /\ IsSuccess(hs_status[1])
     /\ ~session_cookie) =>
        /\ hs_sent = <<HandshakeSteps[1]>>
        /\ req = <<"handshake", 1, 0>>

----------------------------------------------------------------------------
(* C13: when a handshake step or the search POST is answered with a
   non-success status, the run ends there: no results page and no ping was
   requested, the loop was never entered and no artifact is written. *)
SetupFailed ==
    \/ \E k \in 1..Len(hs_status) : ~IsSuccess(hs_status[k])
    \/ \E k \in 1..Len(search_status) : ~IsSuccess(search_status[k])

C13_SetupFailureBeforePageWork ==
    SetupFailed =>
       /\ pc = "raised"
       /\ req[1] \in {"handshake", "search"}
       /\ requested_pages = {}
       /\ page_num = 0
       /\ documents = << >>
       /\ ~output.written

\* the search POST answered 503 after a complete handshake
C13_Witness ==
    /\ pc = "raised"
    /\ hs_sent = HandshakeSteps
    /\ search_status = <<503>>
    /\ req = <<"search", 0, 0>>

----------------------------------------------------------------------------
(* C14: after a success status for the search POST, total_pages is 1 whenever
   the body is not JSON or is JSON without the totalPages field, and
   submit_search does not fail. *)
C14_DefaultsToOnePage ==
    (/\ search_status # << >>
     /\ IsSuccess(search_status[1])
     /\ search_body.kind \in {"notjson", "nofield", "nondict"}) =>
        /\ total_pages = 1
        /\ ~(pc = "raised" /\ req[1] = "search")

----------------------------------------------------------------------------
(* C15: the total_pages stored by submit_search is never negative. *)
C15_TotalPagesNonNegative == total_pages >= 0

----------------------------------------------------------------------------
(* C16: the run goes through its phases in order and never back; the page
   number starts at 1, grows by one at a time and stays within
   1..total_pages while paging; the loop ends at total_pages; fetch_page is
   entered at most once per page number. *)
Phase(p) ==
    CASE p \in {"establish", "establish_wait"} -> 0
      [] p \in {"submit", "submit_wait"} -> 1
      [] p \in {"loop", "ping_wait", "fetch", "fetch_wait", "backoff",
                "page_delay"} -> 3
      [] p \in {"save", "done", "no_results"} -> 4
      [] p \in {"stopped", "raised"} -> 5

Paging(p) == Phase(p) = 3

C16_LinearPhases ==
    [][ /\ Phase(pc') >= Phase(pc)
        /\ page_num' \in {page_num, page_num + 1}
        /\ Paging(pc') => page_num' \in 1..total_pages'
        /\ (Paging(pc) /\ pc' = "save") => page_num = total_pages
        /\ (pc \in {"loop", "fetch"} /\ pc' = "fetch_wait") =>
              page_num \notin requested_pages ]_vars

\* a complete run over three pages
C16_Witness ==
    /\ pc = "done"
    /\ total_pages = 3
    /\ page_num = 3
    /\ requested_pages = {1, 2, 3}

----------------------------------------------------------------------------
(* Vocabulary of the properties about the extractor *)

IdentifyingFields ==
    {"document_id", "recording_date", "grantor", "grantee",
     "document_type_description", "book_volume_page"}

Identified(doc) == \E f \in IdentifyingFields : doc[f] # << >>

\* the row is parsed without an exception and gives an identifying field a
\* value
Yields(row) == ~RowRaises(row) /\ Identified(ExtractFields(row))

RowParsed == parse_output.kind = "row"

PageParsed == parse_output.kind = "page"

\* every record that was emitted: those of documents and those the
\* extractor returned
EmittedRecords ==
    Range(documents)
    \cup (IF RowParsed \/ PageParsed THEN Range(parse_output.result) ELSE {})

----------------------------------------------------------------------------
(* C17: every emitted record has a non-empty field among document_id,
   recording_date, grantor, grantee, document_type_description and
   book_volume_page; parse_document_from_row returns a record exactly for
   the rows that give one of the six a value. *)
C17_RecordsAreIdentified ==
    /\ \A doc \in EmittedRecords : Identified(doc)
    /\ RowParsed =>
          (parse_output.result # None <=> Yields(parse_input.row))

\* a row with a consideration and nothing else is not emitted
C17_Witness ==
    /\ RowParsed
    /\ ExtractFields(parse_input.row).consideration # << >>
    /\ parse_output.result = None

----------------------------------------------------------------------------
(* C18: parse_page returns at most as many records as the markup has rows,
   and every row that gives an identifying field a value yields exactly one
   record, in document order.  EveryRow: wherever the row sits in the markup.
   Otherwise: the rows of the first container when the markup has a
   container, the rows of the whole markup when it has none. *)
Considered(markup, i, everyRow) ==
    everyRow \/ markup.containers = 0 \/ markup.rows[i].loc = 1

PageYields(everyRow) ==
    PageParsed =>
       LET markup == parse_input.markup
           out == parse_output.result
           expected == { i \in 1..Len(markup.rows) :
                           /\ Considered(markup, i, everyRow)
                           /\ Yields(markup.rows[i].row) }
       IN /\ Len(out) <= Len(markup.rows)
          /\ Len(out) = Cardinality(expected)
          /\ \A k \in 1..Len(out) :
                /\ out[k].row \in expected
                /\ out[k] = Tag(ExtractFields(markup.rows[out[k].row].row),
                                parse_input.page, out[k].row)
          /\ \A k, l \in 1..Len(out) : k < l => out[k].row < out[l].row

C18_EveryRowYieldsRecord == PageYields(TRUE)

C18_RowsOfFirstContainerYieldRecords == PageYields(FALSE)

\* two containers and two data rows, one in the first and one in the second
\* container: only the one in the first container is emitted
C18_Witness ==
    /\ PageParsed
    /\ parse_input.markup.containers = 2
    /\ \A c \in {1, 2} : \E i \in 1..Len(parse_input.markup.rows) :
          /\ parse_input.markup.rows[i].loc = c
          /\ parse_input.markup.rows[i].row = DataRow
    /\ Len(parse_output.result) = 1

----------------------------------------------------------------------------
(* C19: a row whose type description contains CANCELLATION gets the
   document_type CNLNT, also when the description is CANCELLATION NOTICE
   SALE. *)
C19_CancellationIsCNLNT ==
    \A doc \in EmittedRecords :
       Contains(doc.document_type_description, <<"CANCELLATION">>) =>
          doc.document_type = "CNLNT"

----------------------------------------------------------------------------
(* C20: the document_type of every emitted record is NTSALE, CNLNT or the
   default.  AsUnknown: the default is UNKNOWN.  Otherwise: the default is
   the empty string.  A record has the default exactly when its description
   contains neither NOTICE SALE nor CANCELLATION (an absent description is
   empty). *)
HasKnownFragment(doc) ==
    \/ Contains(doc.document_type_description, <<"NOTICE", "SALE">>)
    \/ Contains(doc.document_type_description, <<"CANCELLATION">>)

TypeIsCodeOr(default) ==
    \A doc \in EmittedRecords :
       /\ doc.document_type \in {"NTSALE", "CNLNT", default}
       /\ doc.document_type = default <=> ~HasKnownFragment(doc)

C20_TypeIsEnumWithUnknown == TypeIsCodeOr("UNKNOWN")

C20_TypeIsCodeOrEmpty == TypeIsCodeOr("")

\* a deed, and a row without a heading: both emitted with the empty type
C20_Witness ==
    /\ RowParsed
    /\ parse_output.result # None
    /\ parse_output.result[1].document_type = ""
    /\ \/ parse_output.result[1].document_type_description = <<"DEED">>
       \/ ~parse_input.row.h1.present

----------------------------------------------------------------------------
(* C21: two calls of parse_page on the same markup return the same records:
   the same number, the same field values, the same order, whatever the
   page numbers of the two calls. *)
\* the DocumentRecord of a returned record, without where it came from
Fields(rec) == [f \in DOMAIN EmptyRecord |-> rec[f]]

FieldsOf(recs) == [k \in 1..Len(recs) |-> Fields(recs[k])]

----------------------------------------------------------------------------
(* Vocabulary of the properties about page outcomes *)

\* the number of records documents holds of page p
RecordsOfPage(p) ==
    Cardinality({ i \in 1..Len(documents) : documents[i].page = p })

\* a 5xx status or a network failure
Transient(status) == status = NetworkError \/ Is5xx(status)

AllTransient(log) == \A i \in 1..Len(log) : Transient(log[i])

StrictlyIncreasing(seq) ==
    \A i \in 1..(Len(seq) - 1) : seq[i] < seq[i + 1]

----------------------------------------------------------------------------
(* C22: a completed run in which no page failed and every page gave k
   records has an artifact with total_pages = T, total_records = T * k,
   successful_pages = T and failed_pages = []. *)
C22_AllPagesSucceed ==
    (pc = "done" /\ failed_pages = << >>) =>
       \A k \in 0..MaxRows :
          (\A p \in 1..total_pages : RecordsOfPage(p) = k) =>
             /\ output.written
             /\ output.total_pages = total_pages
             /\ output.total_records = total_pages * k
             /\ output.processing_stats.successful_pages = total_pages
             /\ output.processing_stats.failed_pages = << >>

\* three pages of two records each: six records
C22_Witness ==
    /\ pc = "done"
    /\ total_pages = 3
    /\ failed_pages = << >>
    /\ \A p \in 1..3 : RecordsOfPage(p) = 2
    /\ output.total_records = 6
    /\ output.processing_stats.successful_pages = 3

----------------------------------------------------------------------------
(* C23: a run whose pages failed by using up their retries, some or all of
   them, still ends with save_results: once the loop is through all pages
   the artifact is written, and its processing_stats list exactly the pages
   that used up their retries. *)
C23_FailedPagesArePersisted ==
    /\ StrictlyIncreasing(failed_pages)
    /\ \A p \in Range(failed_pages) : p \in requested_pages
    /\ InFetch =>
          (LogPage \in Range(failed_pages) <=>
              Len(page_log) = MAX_RETRIES /\ AllTransient(page_log))
    /\ pc \in {"save", "done"} =>
          /\ page_num = total_pages
          /\ requested_pages = 1..total_pages
          /\ successful_pages + Len(failed_pages) = total_pages
          /\ processing_stats.set
          /\ processing_stats.failed_pages = failed_pages
    /\ pc = "done" =>
          output = save_results(total_pages, total_records, documents,
                                processing_stats)

\* both pages of a run of two failed; the artifact is written without records
C23_Witness ==
    /\ pc = "done"
    /\ total_pages = 2
    /\ failed_pages = <<1, 2>>
    /\ output.written
    /\ output.documents = << >>
    /\ output.processing_stats.failed_pages = <<1, 2>>

----------------------------------------------------------------------------
(* C24: a ping is sent for page p only when p is a multiple of 5, at the top
   of the iteration and once; the first request for a page that is a multiple
   of 5 comes right after the ping of that page, the first request for any
   other page does not follow a ping. *)
C24_PingEveryFifthPage ==
    [][ /\ (req' # req /\ req'[1] = "ping") =>
              /\ req'[2] = page_num
              /\ page_num % 5 = 0
              /\ pc = "loop"
              /\ req[1] \in {"search", "page"}
              /\ req[2] < page_num
        /\ (req' # req /\ req'[1] = "page" /\ req'[3] = 1) =>
              IF req'[2] % 5 = 0
              THEN req = <<"ping", req'[2], 0>>
              ELSE req[1] # "ping" ]_vars

\* the ping of page 5 was answered, the page itself is not yet requested
C24_Witness ==
    /\ pc = "fetch"
    /\ page_num = 5
    /\ req = <<"ping", 5, 0>>
    /\ ping_result = "True"
    /\ requested_pages = 1..4

----------------------------------------------------------------------------
(* C25: the loop goes from page p to page p + 1 only at the end of the
   inter-page sleep, whether page p succeeded or failed. *)
C25_DelayBetweenPages ==
    [][ (page_num >= 1 /\ page_num' # page_num) => pc = "page_delay" ]_vars

----------------------------------------------------------------------------
(* C26: an answer with a status below 400, on any attempt, ends fetch_page
   with the body as its result, an empty body included: the page is counted
   in successful_pages and is not put into failed_pages. *)
C26_SuccessEndsFetch ==
    [][ (/\ page_log' # page_log
         /\ page_log' # << >>
         /\ IsSuccess(page_log'[Len(page_log')])) =>
           /\ fetch_result' = "text"
           /\ html_content' # None
           /\ successful_pages' = successful_pages + 1
           /\ failed_pages' = failed_pages
           /\ page_num \notin Range(failed_pages)
           /\ pc' \in {"page_delay", "save"} ]_vars

\* the second attempt was answered 200 with an empty body
C26_Witness ==
    /\ page_log = <<503, 200>>
    /\ fetch_result = "text"
    /\ html_content = <<EmptyBody>>
    /\ successful_pages = 1
    /\ failed_pages = << >>

----------------------------------------------------------------------------
(* C27: a 4xx answer to a page request is the last answer of that fetch_page
   call: no request for the page follows it, on whatever attempt it came. *)
C27_ClientErrorNotRetried ==
    \A i \in 1..Len(page_log) :
       Is4xx(page_log[i]) =>
          /\ i = Len(page_log)
          /\ req = <<"page", page_num, i>>
          /\ attempt = i
          /\ pc = "raised"

\* a 404 on the second attempt
C27_Witness ==
    /\ page_log = <<503, 404>>
    /\ req = <<"page", page_num, 2>>
    /\ pc = "raised"

----------------------------------------------------------------------------
(* C28: network failures and 5xx answers share the attempts of a page: in
   any mix of them fetch_page makes at most MAX_RETRIES requests, returns the
   body of the first answer below 400 that comes within them, and otherwise
   returns None, the page being recorded as failed and nothing raised. *)
C28_NetworkErrorsShareBudget ==
    InFetch =>
       LET n == Len(page_log)
       IN /\ n <= MAX_RETRIES
          /\ req[3] \in 1..MAX_RETRIES
          /\ req[3] \in {n, n + 1}
          /\ (AllTransient(page_log) /\ n = MAX_RETRIES) =>
                /\ fetch_result = "None"
                /\ html_content = None
                /\ LogPage \in Range(failed_pages)
                /\ pc # "raised"
          /\ (AllTransient(page_log) /\ n < MAX_RETRIES) =>
                fetch_result = "running"
          /\ (/\ n >= 1
              /\ AllTransient(SubSeq(page_log, 1, n - 1))
              /\ IsSuccess(page_log[n])) =>
                /\ fetch_result = "text"
                /\ html_content # None
                /\ req[3] = n
          /\ fetch_result = "None" => (n = MAX_RETRIES /\ AllTransient(page_log))

\* a network failure, a 503 and a network failure: the page has failed
C28_Witness ==
    /\ InFetch
    /\ page_log = <<NetworkError, 503, NetworkError>>
    /\ fetch_result = "None"
    /\ LogPage \in Range(failed_pages)

----------------------------------------------------------------------------
(* C29: for n document-type entries the form has 2n + 4 fields: the start
   date, the end date, for each entry in input order its code and then its
   label, the match mode "Contains Any", and the empty type field; an entry
   without a colon has its code as its label. *)
HasLabel(entry) == \E k \in 1..Len(entry) : entry[k] = ":"

FirstColon(entry) ==
    CHOOSE k \in 1..Len(entry) :
       entry[k] = ":" /\ \A j \in 1..(k - 1) : entry[j] # ":"

ExpectedCode(entry) ==
    Strip(IF HasLabel(entry)
          THEN SubSeq(entry, 1, FirstColon(entry) - 1)
          ELSE entry)

ExpectedLabel(entry) ==
    IF HasLabel(entry)
    THEN Strip(SubSeq(entry, FirstColon(entry) + 1, Len(entry)))
    ELSE ExpectedCode(entry)

C29_FormLayout ==
    form_output # << >> =>
       LET n == Len(form_input)
           form == form_output
       IN /\ Len(form) = 2 * n + 4
          /\ form[1] = <<"field_RecordingDateID_DOT_StartDate", START_DATE>>
          /\ form[2] = <<"field_RecordingDateID_DOT_EndDate", END_DATE>>
          /\ \A i \in 1..n :
                /\ form[2 * i + 1] =
                      <<"field_selfservice_documentTypes-holderInput",
                        ExpectedCode(form_input[i])>>
                /\ form[2 * i + 2] =
                      <<"field_selfservice_documentTypes-holderValue",
                        ExpectedLabel(form_input[i])>>
          /\ form[2 * n + 3] =
                <<"field_selfservice_documentTypes-containsInput",
                  <<"Contains", " ", "Any">> >>
          /\ form[2 * n + 4] = <<"field_selfservice_documentTypes", << >> >>

\* three entries, one without a label and one with a label: ten fields
C29_Witness ==
    /\ Len(form_input) = 3
    /\ form_input[1] = <<"NTSALE">>
    /\ form_input[2] = <<"CNLNT", ":", "CANCELLATION NOTICE SALE">>
    /\ Len(form_output) = 10
    /\ form_output[4][2] = <<"NTSALE">>
    /\ form_output[6][2] = <<"CANCELLATION NOTICE SALE">>

----------------------------------------------------------------------------
(* C30: whatever the backend answers, the run terminates, and it makes at
   most total_pages * MAX_RETRIES page requests: every page request is for a
   page in 1..total_pages and an attempt in 1..MAX_RETRIES, and each one is
   for a later page than every page requested before, or for the same page
   and the next attempt, so no (page, attempt) pair is requested twice. *)
Terminated == pc \in {"done", "no_results", "stopped", "raised"}

IssuesPageRequest == pc # "fetch_wait" /\ pc' = "fetch_wait"

RequestInBudget ==
    /\ req' = <<"page", page_num', attempt'>>
    /\ page_num' \in 1..total_pages
    /\ attempt' \in 1..MAX_RETRIES

FirstRequestOfLaterPage ==
    /\ attempt' = 1
    /\ \A q \in requested_pages : q < page_num'

NextRequestOfSamePage ==
    /\ page_num' = page_num
    /\ \A q \in requested_pages : q <= page_num
    /\ req = <<"page", page_num, attempt>>
    /\ attempt' = attempt + 1

C30_TerminatesWithinBudget ==
    /\ <>Terminated
    /\ [][ IssuesPageRequest =>
             /\ RequestInBudget
             /\ FirstRequestOfLaterPage \/ NextRequestOfSamePage ]_vars

\* a finished run that spent every attempt on each of its two or more pages
C30_Witness ==
    /\ pc = "done"
    /\ total_pages >= 2
    /\ Len(failed_pages) = total_pages
    /\ Len(page_log) = MAX_RETRIES

----------------------------------------------------------------------------
(* C31: a row whose parsing raises is dropped and nothing else is: for
   every markup, parse_page returns a list that holds, in document order,
   the record of every considered row before and after the failing one
   that gives an identifying field a value, and no record for the failing
   row; in a run the page of such a markup is counted as successful and the
   run is not ended by it. *)
ConsideredRows(markup) ==
    { i \in 1..Len(markup.rows) : Considered(markup, i, FALSE) }

FailingRows(markup) ==
    { i \in ConsideredRows(markup) : RowRaises(markup.rows[i].row) }

RowsOf(out) == { out[k].row : k \in 1..Len(out) }

\* the page the markup in html_content was fetched for
ContentPage == req[2]

C31_RowFailureDropsRowOnly ==
    /\ PageParsed =>
          LET markup == parse_input.markup
              out == parse_output.result
          IN /\ RowsOf(out) \cap FailingRows(markup) = {}
             /\ \A i \in ConsideredRows(markup) \ FailingRows(markup) :
                   Identified(ExtractFields(markup.rows[i].row)) =>
                      \E k \in 1..Len(out) :
                         out[k] = Tag(ExtractFields(markup.rows[i].row),
                                      parse_input.page, i)
             /\ \A k, l \in 1..Len(out) : k < l => out[k].row < out[l].row
    /\ (/\ html_content # None
        /\ fetch_result = "text"
        /\ req[1] = "page"
        /\ FailingRows(html_content[1]) # {}) =>
          /\ pc # "raised"
          /\ ContentPage \notin Range(failed_pages)
          /\ successful_pages >= 1
          /\ \A i \in ConsideredRows(html_content[1]) \ FailingRows(html_content[1]) :
                Identified(ExtractFields(html_content[1].rows[i].row)) =>
                   \E k \in 1..Len(documents) :
                      documents[k] = Tag(ExtractFields(html_content[1].rows[i].row),
                                         ContentPage, i)

\* a failing row and a data row in the scanned part: one record, that of the
\* data row
C31_Witness ==
    /\ PageParsed
    /\ FailingRows(parse_input.markup) # {}
    /\ \E i \in ConsideredRows(parse_input.markup) :
          parse_input.markup.rows[i].row = DataRow
    /\ Len(parse_output.result) = 1

----------------------------------------------------------------------------
(* C32: parse_page takes the rows of the whole document exactly when the
   markup has no result-list container; with a container, only the rows of
   the first container are taken.  The snapshot debug_page_p.html, p the
   page number of the call, is written exactly when the markup has neither
   a container nor a result row. *)
\* the page numbers parse_page was called with
ParsedUnder ==
    (IF PageParsed THEN {parse_input.page} ELSE {})
    \cup (IF parse_again.kind = "page" THEN {parse_again.page} ELSE {})

C32_FallbackScanAndSnapshot ==
    PageParsed =>
       LET markup == parse_input.markup
           taken == RowsOf(parse_output.result)
           yielding == { i \in 1..Len(markup.rows) : Yields(markup.rows[i].row) }
       IN /\ markup.containers = 0 => taken = yielding
          /\ markup.containers >= 1 =>
                taken = { i \in yielding : markup.rows[i].loc = 1 }
          /\ debug_files =
                IF markup.containers = 0 /\ markup.rows = << >>
                THEN ParsedUnder
                ELSE {}

\* the empty body parsed as page 1 and once more as page 2: two snapshots
C32_Witness ==
    /\ PageParsed
    /\ parse_input.markup = EmptyBody
    /\ parse_again.kind = "page"
    /\ debug_files = {1, 2}

----------------------------------------------------------------------------
(* C33: the sleep before attempt k + 1 of a page, k < MAX_RETRIES, lasts
   0.7 * 1.8^(k-1) seconds plus a jitter of 0 to 0.5 seconds, whether attempt
   k ended with a 5xx answer or with a network exception; there is no sleep
   after the last attempt. *)
\* 0.7 * 1.8^(k-1) seconds in ms
BaseWait(k) == (700 * Pow(18, k - 1)) \div Pow(10, k - 1)

C33_ExponentialBackoff ==
    /\ pc = "backoff" =>
          /\ attempt < MAX_RETRIES
          /\ backoff >= BaseWait(attempt)
          /\ backoff <= BaseWait(attempt) + 500
    /\ pc # "backoff" => backoff = 0

----------------------------------------------------------------------------
(* C34: the grantor (grantee) of a record is made of the non-empty value
   entries of the grantor (grantee) column, the header entry left out, in
   markup order and joined by the pipe delimiter; an empty entry gives no
   segment, and a column without a non-empty entry leaves the field as the
   columns before it left it. *)
\* the value entries of a column that are not empty, in markup order
NonEmptyValues(column) ==
    SelectSeq(SubSeq(column, 2, Len(column)), LAMBDA text : text # << >>)

RECURSIVE PipeJoined(_)
PipeJoined(texts) ==
    IF Len(texts) = 1 THEN texts[1]
    ELSE texts[1] \o <<Pipe>> \o PipeJoined(Tail(texts))

\* the columns of the row headed by the word that have a non-empty value
NamedColumns(row, word) ==
    { c \in 1..Len(row.columns) :
         /\ row.columns[c] # << >>
         /\ LowerText(row.columns[c][1]) = <<word>>
         /\ NonEmptyValues(row.columns[c]) # << >> }

NameField(row, word) ==
    IF NamedColumns(row, word) = {} THEN << >>
    ELSE LET last == CHOOSE c \in NamedColumns(row, word) :
                        \A d \in NamedColumns(row, word) : d <= c
         IN PipeJoined(NonEmptyValues(row.columns[last]))

C34_NamesArePipeJoined ==
    (RowParsed /\ parse_output.result # None) =>
       /\ parse_output.result[1].grantor = NameField(parse_input.row, "grantor")
       /\ parse_output.result[1].grantee = NameField(parse_input.row, "grantee")

\* a grantor column with an empty entry between two names, followed by a
\* grantor column without a name: the two names, joined
C34_Witness ==
    /\ RowParsed
    /\ Len(parse_input.row.columns) = 2
    /\ parse_input.row.columns[1] = GrantorColumn
    /\ NonEmptyValues(parse_input.row.columns[2]) = << >>
    /\ parse_output.result # None
    /\ parse_output.result[1].grantor = <<"SMITH", Pipe, "JONES">>

----------------------------------------------------------------------------
(* C35: at every point of the paging loop, successful_pages plus the length
   of failed_pages is the number of pages whose processing has finished;
   failed_pages is strictly increasing; no page is counted both as
   successful and as failed; and documents changes only by getting records
   appended. *)
\* the pages whose iteration of the loop has ended
FinishedPages ==
    IF pc \in {"save", "done"} THEN total_pages
    ELSE IF pc = "page_delay" THEN page_num
    ELSE page_num - 1

C35_PageAccounting ==
    (Paging(pc) \/ pc \in {"save", "done"}) =>
       /\ successful_pages + Len(failed_pages) = FinishedPages
       /\ successful_pages = Cardinality(succeeded)
       /\ StrictlyIncreasing(failed_pages)
       /\ succeeded \cap Range(failed_pages) = {}
       /\ succeeded \cup Range(failed_pages) = 1..FinishedPages

C35_PagingBookkeeping ==
    /\ []C35_PageAccounting
    /\ [][IsPrefix(documents, documents')]_vars

\* in the middle of paging: a failed page, then two successful ones
C35_Witness ==
    /\ pc = "page_delay"
    /\ failed_pages = <<1>>
    /\ succeeded = {2, 3}
    /\ Len(documents) > MaxRows

----------------------------------------------------------------------------
(* C36: when the search answers with a totalPages below 1, the run requests
   no page, sends no ping and writes no output file: the search request
   stays the last request of the run. *)
SearchReported ==
    /\ search_body # NoBody
    /\ ~JsonGetRaises(search_body)

C36_NoPagesNoWork ==
    (SearchReported /\ TotalPagesOf(search_body) < 1) =>
       /\ total_pages = TotalPagesOf(search_body)
       /\ pc = "no_results"
       /\ req = <<"search", 0, 0>>
       /\ requested_pages = {}
       /\ ping_result = "none"
       /\ fetch_result = "none"
       /\ output = NoOutput
       /\ debug_files = {}
       /\ documents = << >>

\* the search answered totalPages = 0
C36_Witness ==
    /\ SearchReported
    /\ search_body.kind = "int"
    /\ total_pages = 0
    /\ pc = "no_results"

----------------------------------------------------------------------------
(* C37: a page answered with a status below 400 whose markup has no result
   row is counted in successful_pages, adds no record to documents and is
   never put on failed_pages. *)
NoResultRow(markup) == markup.rows = << >>

\* the last page request was answered with a status below 400
PageAnswered ==
    /\ req[1] = "page"
    /\ page_log # << >>
    /\ IsSuccess(page_log[Len(page_log)])

C37_EmptyPageIsSuccessful ==
    PageAnswered =>
       /\ html_content # None
       /\ ContentPage \in succeeded
       /\ ContentPage \notin Range(failed_pages)
       /\ successful_pages >= 1
       /\ NoResultRow(html_content[1]) => RecordsOfPage(ContentPage) = 0

\* a run of two pages: the first came with records, the second with an
\* empty body
C37_Witness ==
    /\ PageAnswered
    /\ html_content = <<EmptyBody>>
    /\ ContentPage = 2
    /\ succeeded = {1, 2}
    /\ Len(documents) = MaxRows
    /\ RecordsOfPage(2) = 0
    /\ pc = "done"

----------------------------------------------------------------------------
(* C38: in ping_loop the backoff is always one of 5, 10, 20, ..., 160, 300
   seconds, so within 5..300; it starts at 5, is doubled (at most to 300)
   after every ping that got a 5xx answer or a network exception, and is
   set to 5 by every ping answered with a status below 500 other than 401
   and 403; an answer 401 or 403 ends the loop, and no ping is sent after
   it. *)
DaemonAnswered == daemon_pc = "ping_wait" /\ daemon_pc' # "stopped"

C38_BackoffStep ==
    /\ DaemonAnswered =>
          LET status == daemon_status'[1]
          IN IF PingRejected(status)
             THEN daemon_pc' = "exited"
             ELSE IF Transient(status)
             THEN daemon_pc' = "error_sleep" /\ daemon_backoff' = daemon_backoff
             ELSE daemon_pc' = "interval_sleep" /\ daemon_backoff' = BACKOFF_START
    /\ daemon_pc = "error_sleep" /\ daemon_pc' = "ping" =>
          daemon_backoff' = Min(2 * daemon_backoff, backoff_max)
    /\ daemon_pc = "interval_sleep" => daemon_backoff' = daemon_backoff
    /\ daemon_pc = "exited" => daemon_pc' = "exited" /\ daemon_pings' = daemon_pings

C38_BackoffBounded ==
    /\ [](daemon_backoff \in {5, 10, 20, 40, 80, 160, 300})
    /\ [](daemon_pings = 0 => daemon_backoff = BACKOFF_START)
    /\ [][C38_BackoffStep]_vars

\* the backoff has reached its cap, and then a 403 ended the loop
C38_Witness ==
    /\ daemon_backoff = backoff_max
    /\ daemon_pc = "exited"
    /\ daemon_status = <<403>>

----------------------------------------------------------------------------
(* C39: main of the PDF downloader requests the candidate endpoints in the
   order of the list and stops at the first one that answers with a status
   below 400 and content starting with %PDF: after such an answer no further
   candidate is requested, main ends with result 0 if there was such an
   answer and with result 2 if every candidate failed, and the debug
   response is fetched only if every candidate failed. *)

\* the answer the claim calls a success
PdfSuccess(answer) ==
    /\ answer.status # NetworkError
    /\ answer.status < 400
    /\ answer.content = "%PDF"

PdfSucceeded == \E i \in 1..Len(pdf_log) : PdfSuccess(pdf_log[i])

PdfEveryCandidateFailed ==
    /\ Len(pdf_log) = Len(CANDIDATE_PATHS)
    /\ ~PdfSucceeded

PdfEnded == pdf_pc \in {"returned", "raised"}

C39_FirstPdfWins ==
    /\ [](IsPrefix(pdf_requested, CANDIDATE_PATHS))
    /\ [][PdfSucceeded => pdf_requested' = pdf_requested]_vars
    /\ [](PdfEnded /\ PdfSucceeded => pdf_result = <<0>>)
    /\ [](PdfEnded /\ PdfEveryCandidateFailed => pdf_result = <<2>>)
    /\ [](pdf_result = <<0>> => PdfSucceeded)
    /\ [](pdf_result = <<2>> => PdfEveryCandidateFailed)
    /\ [](pdf_debug # "none" => PdfEveryCandidateFailed)

====
